---- MODULE Spec2Model ----
(***************************************************************************)
(* Model of bot/index.js of tele-down: the long-poll dispatch loop, the    *)
(* update handlers and the pending-poll store LEFT_OVER_POLLS.             *)
(*                                                                         *)
(* Strings whose characters the code inspects (file names, paths, callback *)
(* payloads) are sequences of one-character strings.  Every awaited        *)
(* network call either succeeds or fails; the environment chooses which    *)
(* call of a handler run fails, if any (net: its position among the calls  *)
(* of the run, 0 for none).  A failure that is caught changes nothing in   *)
(* what the handler does next, and one that is not caught ends the         *)
(* handler, so more than one failure in a run adds no behaviour of the     *)
(* bot.  The server is the Telegram Bot API server: getUpdates answers     *)
(* with the unconfirmed updates whose update_id is at least the offset,    *)
(* oldest first, and every poll gets an id of its own.                     *)
(***************************************************************************)
EXTENDS Integers, Sequences, FiniteSets, TLC

\* ------------------------------------------------------------- bounds
\* Number of updates the server creates in one behaviour.
MaxUpdates == 3
\* Number of unconfirmed updates the server holds at a time.
MaxQueue == 2
\* Network calls of one handler run that can be the failing one (calls
\* after the MaxCalls-th succeed).
MaxCalls == 4

\* ------------------------------------------------------------- data
Chats == {7}

NoChars == << >>

ZipExt == <<".", "z", "i", "p">>
RarExt == <<".", "r", "a", "r">>

NameZip == <<"a", ".", "z", "i", "p">>
NameRar == <<"b", ".", "r", "a", "r">>
Name7z == <<"d", ".", "7", "z">>
NameUpperZip == <<"A", ".", "Z", "I", "P">>

\* File names of the documents users upload.
FileNames == {NameZip, NameRar, Name7z, NameUpperZip}

TextStart == <<"/", "s", "t", "a", "r", "t">>

\* String.prototype.endsWith
EndsWith(s, suffix) ==
    /\ Len(s) >= Len(suffix)
    /\ SubSeq(s, Len(s) - Len(suffix) + 1, Len(s)) = suffix

\* An update as getUpdates returns it.  Absent fields hold 0, FALSE, ""
\* or the empty string of characters.
\*   kind      "message" | "poll" | "callback_query" | "unknown"
\*   chat      message.chat.id (callback_query.message.chat.id)
\*   text      message.text
\*   photo     number of size variants of message.photo (0: no photo)
\*   video     message.video is present
\*   document  message.document is present, file_name its file_name
\*   poll_id   poll.id
\*   vote      text of the first option with voter_count > 0 ("" if none)
\*   data      callback_query.data
BlankUpdate ==
    [update_id |-> 0, kind |-> "unknown", chat |-> 0, text |-> NoChars,
     photo |-> 0, video |-> FALSE, document |-> FALSE, file_name |-> NoChars,
     poll_id |-> 0, vote |-> "", data |-> NoChars]

Message(c) == [BlankUpdate EXCEPT !.kind = "message", !.chat = c]

\* ------------------------------------------------------------- paths
Slash == <<"/">>
Colon == <<":">>
Dot == "."

\* path.join(UNZIP_DIR, x) with UNZIP_DIR = './unzipped/' normalises to
\* unzipped/x.
UNZIP_DIR == <<"u", "n", "z", "i", "p", "p", "e", "d">>

\* path.join(dir, name)
PathJoin(dir, name) == dir \o Slash \o name

\* Index of the last occurrence of character c in s, 0 if there is none.
RECURSIVE LastIndexOf(_, _, _)
LastIndexOf(s, c, i) ==
    IF i = 0 THEN 0
    ELSE IF s[i] = c THEN i
    ELSE LastIndexOf(s, c, i - 1)

\* path.basename(p)
BaseName(p) ==
    LET i == LastIndexOf(p, "/", Len(p))
    IN SubSeq(p, i + 1, Len(p))

\* path.extname(p): from the last '.' of the base name to its end; empty
\* when there is no '.' or the only '.' is the base name's first character.
ExtName(p) ==
    LET b == BaseName(p)
        i == LastIndexOf(b, Dot, Len(b))
    IN IF i <= 1 THEN NoChars ELSE SubSeq(b, i, Len(b))

\* path.basename(p, ext): the base name without a trailing ext.
BaseNameNoExt(p, ext) ==
    LET b == BaseName(p)
    IN IF ext # NoChars /\ Len(b) > Len(ext) /\ EndsWith(b, ext)
       THEN SubSeq(b, 1, Len(b) - Len(ext))
       ELSE b

\* String.prototype.toLowerCase on the characters the model uses.
LowerChar(c) ==
    CASE c = "A" -> "a"
      [] c = "Z" -> "z"
      [] c = "I" -> "i"
      [] c = "P" -> "p"
      [] c = "R" -> "r"
      [] OTHER -> c

ToLowerCase(s) == [i \in 1..Len(s) |-> LowerChar(s[i])]

\* .slice(1)
Slice1(s) == SubSeq(s, 2, Len(s))

\* ------------------------------------------------------------- files
SUPPORTED_PHOTO_TYPES ==
    { <<"j", "p", "g">>, <<"j", "p", "e", "g">>, <<"p", "n", "g">>,
      <<"g", "i", "f">>, <<"w", "e", "b", "p">>, <<"t", "i", "f", "f">> }

SUPPORTED_VIDEO_TYPES ==
    { <<"m", "p", "4">>, <<"a", "v", "i">>, <<"m", "o", "v">>,
      <<"m", "k", "v">>, <<"w", "e", "b", "m">>, <<".", "t", "s">> }

\* The predicate of getMultimediaFiles' filter.
IsMultimedia(file) ==
    LET fileType == Slice1(ExtName(file))
    IN fileType \in SUPPORTED_PHOTO_TYPES \/ fileType \in SUPPORTED_VIDEO_TYPES

\* getMultimediaFiles without its filter.
getMultimediaFilesAll(files) == files

\* files.filter(...) of getMultimediaFiles.
RECURSIVE getMultimediaFiles(_)
getMultimediaFiles(files) ==
    IF files = << >> THEN << >>
    ELSE IF IsMultimedia(Head(files))
         THEN <<Head(files)>> \o getMultimediaFiles(Tail(files))
         ELSE getMultimediaFiles(Tail(files))

\* What the archives of the model hold, as the tree extraction leaves under
\* UNZIP_DIR: each directory with its regular files and its subdirectories,
\* in the order readdirSync lists them.
\*   unzipped/a      p.png n.txt   s/
\*   unzipped/a/s    v.mp4         t/
\*   unzipped/a/s/t  q.jpg
\*   unzipped/b      n.txt
FilePng == <<"p", ".", "p", "n", "g">>
FileTxt == <<"n", ".", "t", "x", "t">>
FileMp4 == <<"v", ".", "m", "p", "4">>
FileJpg == <<"q", ".", "j", "p", "g">>

DirA == PathJoin(UNZIP_DIR, <<"a">>)
DirAS == PathJoin(DirA, <<"s">>)
DirAST == PathJoin(DirAS, <<"t">>)
DirB == PathJoin(UNZIP_DIR, <<"b">>)

\*   unzipped/c      p.png n.txt v.mp4 q.jpg g.gif b.rar   1/ 2/ 3/ 4/ 5/ 6/
\*   unzipped/c/1    (no file)     e/
\*   unzipped/c/2 .. unzipped/c/6, unzipped/c/1/e: empty
FileGif == <<"g", ".", "g", "i", "f">>

DirC == PathJoin(UNZIP_DIR, <<"c">>)
DirCNames == << <<"1">>, <<"2">>, <<"3">>, <<"4">>, <<"5">>, <<"6">> >>
DirC1 == PathJoin(DirC, <<"1">>)
DirC1E == PathJoin(DirC1, <<"e">>)

Tree ==
    (DirA :> [files |-> <<FilePng, FileTxt>>, dirs |-> << <<"s">> >>]) @@
    (DirAS :> [files |-> <<FileMp4>>, dirs |-> << <<"t">> >>]) @@
    (DirAST :> [files |-> <<FileJpg>>, dirs |-> << >>]) @@
    (DirB :> [files |-> <<FileTxt>>, dirs |-> << >>]) @@
    (DirC :> [files |-> <<FilePng, FileTxt, FileMp4, FileJpg, FileGif, NameRar>>,
              dirs |-> DirCNames]) @@
    (DirC1 :> [files |-> << >>, dirs |-> << <<"e">> >>]) @@
    [d \in {PathJoin(DirC, DirCNames[k]) : k \in 2..Len(DirCNames)} \cup {DirC1E}
       |-> [files |-> << >>, dirs |-> << >>]]

\* The extraction directories: one per archive, directly below UNZIP_DIR.
Roots == {DirA, DirB, DirC}

\* The directory a path lies in or under, directly below UNZIP_DIR.
ArchiveRoot(dir) ==
    IF \E r \in Roots : dir = r \/ (Len(dir) > Len(r) /\ SubSeq(dir, 1, Len(r) + 1) = r \o Slash)
    THEN CHOOSE r \in Roots : dir = r \/ (Len(dir) > Len(r) /\ SubSeq(dir, 1, Len(r) + 1) = r \o Slash)
    ELSE NoChars

\* fs.readdirSync(dir) succeeds: dir is a directory of an archive that has
\* been extracted (disk: the extraction directories present on disk).
DirExists(disk, dir) == dir \in DOMAIN Tree /\ ArchiveRoot(dir) \in disk

\* ------------------------------------------------------------- handler runs
\* The run of one handler: the network calls made so far (calls), whether an
\* exception is propagating (threw), and the state the handler works on:
\* LEFT_OVER_POLLS.archive_polls (polls), the extraction directories on disk
\* (disk), and on the server's side the id of the next poll (nextPoll) and
\* the inline buttons shown to users (buttons).  found: handlePollResponse
\* matched a pending poll.
Start(polls, nextPoll, disk, buttons) ==
    [calls |-> << >>, threw |-> FALSE, found |-> FALSE, polls |-> polls,
     nextPoll |-> nextPoll, disk |-> disk, buttons |-> buttons]

\* throw
Throw(s) == [s EXCEPT !.threw = TRUE]

\* One awaited call of the axios client (or of an extraction library): it is
\* skipped when an exception is already propagating; the k-th call of the
\* run fails iff k = net; a failure propagates iff throws.
Call(s, net, op, chat, what, arg, info, throws) ==
    IF s.threw THEN s
    ELSE LET k == Len(s.calls) + 1
             ok == k # net
         IN [s EXCEPT !.calls = Append(@, [op |-> op, chat |-> chat, what |-> what,
                                            arg |-> arg, info |-> info, ok |-> ok]),
                      !.threw = throws /\ ~ok]

\* The last call of the run succeeded.
LastOk(s) == s.calls # << >> /\ s.calls[Len(s.calls)].ok

\* sendMessage without its try/catch: the failure of the request propagates.
sendMessageUncaught(s, net, chatId, what, arg, info) ==
    Call(s, net, "sendMessage", chatId, what, arg, info, TRUE)

\* sendMessage catches the failure of its request and returns -1.
sendMessage(s, net, chatId, what, arg, info) ==
    Call(s, net, "sendMessage", chatId, what, arg, info, FALSE)

\* deleteMessage catches the failure of its request.
deleteMessage(s, net, chatId) ==
    Call(s, net, "deleteMessage", chatId, "", NoChars, << >>, FALSE)

\* sendPoll has no try/catch: a failed request throws.  The server numbers
\* the polls it creates.
sendPoll(s, net, chatId) ==
    LET t == Call(s, net, "sendPoll", chatId, "send_unzipped?", NoChars, << >>, TRUE)
    IN IF s.threw \/ t.threw THEN t ELSE [t EXCEPT !.nextPoll = @ + 1]

\* sendPhoto and sendVideo have no try/catch.
sendPhoto(s, net, chatId, photoPath) ==
    Call(s, net, "sendPhoto", chatId, "", photoPath, << >>, TRUE)

sendVideo(s, net, chatId, videoPath) ==
    Call(s, net, "sendVideo", chatId, "", videoPath, << >>, TRUE)

sendFile(s, net, chatId, filePath) ==
    LET fileType == Slice1(ExtName(filePath))
    IN IF fileType \in SUPPORTED_PHOTO_TYPES THEN sendPhoto(s, net, chatId, filePath)
       ELSE IF fileType \in SUPPORTED_VIDEO_TYPES THEN sendVideo(s, net, chatId, filePath)
       ELSE sendMessage(s, net, chatId, "unsupported_type", BaseName(filePath), << >>)

\* The file_path the server answers getFile with for an uploaded document:
\* a local path that keeps the document's name.
ServerFilePath(file_name) == <<"/", "d", "/">> \o file_name

\* downloadFile has no try/catch.
downloadFile(s, net, chatId, file_name) ==
    Call(s, net, "getFile", chatId, "", file_name, << >>, TRUE)

sendDownloadPathMessage(s, net, chatId, filePath) ==
    sendMessage(s, net, chatId, "download_path", filePath, << >>)

\* extractArchive: by the lower-cased extension; a failing extraction
\* rejects, any other extension throws.
extractArchive(s, net, archiveFilePath, outputDir) ==
    LET fileExtension == ToLowerCase(ExtName(archiveFilePath))
    IN IF fileExtension \in {ZipExt, RarExt}
       THEN LET t == Call(s, net, "extract", 0, "", outputDir, << >>, TRUE)
            IN IF s.threw \/ t.threw THEN t ELSE [t EXCEPT !.disk = @ \cup {outputDir}]
       ELSE IF s.threw THEN s ELSE Throw(s)

\* A message with the inline keyboard Yes (callback_data yesData) / No
\* (callback_data 'ignore'): once sent, its buttons can be pressed.
Ignore == <<"i", "g", "n", "o", "r", "e">>
SendMediaFiles == <<"s", "e", "n", "d", "_", "m", "e", "d", "i", "a", "_", "f", "i", "l", "e", "s">>
ExploreSubdirs == <<"e", "x", "p", "l", "o", "r", "e", "_", "s", "u", "b", "d", "i", "r", "s">>

sendKeyboard(s, net, chatId, what, yesData) ==
    LET t == sendMessage(s, net, chatId, what, yesData, << >>)
    IN IF s.threw \/ ~LastOk(t) THEN t
       ELSE [t EXCEPT !.buttons = @ \cup {[chat |-> chatId, data |-> yesData],
                                          [chat |-> chatId, data |-> Ignore]}]

askToSendMultimediaFiles(s, net, chatId, dir, fileName) ==
    sendKeyboard(s, net, chatId, "ask_send_media",
                 SendMediaFiles \o Colon \o dir \o Colon \o fileName)

askToExploreSubdirectories(s, net, chatId, dir, fileName) ==
    sendKeyboard(s, net, chatId, "ask_explore",
                 ExploreSubdirs \o Colon \o dir \o Colon \o fileName)

\* .slice(0, 5) of the example lists.
ExampleCount == 5

\* .slice(0, n)
SliceTo(seq, n) == SubSeq(seq, 1, IF Len(seq) < n THEN Len(seq) ELSE n)

\* recursiveSendFiles descending by itself into every subdirectory.
RECURSIVE recursiveSendFilesDeep(_, _, _, _, _)
RECURSIVE DeepEach(_, _, _, _, _, _)
DeepEach(s, net, chatId, dir, fileName, subDirs) ==
    IF subDirs = << >> \/ s.threw THEN s
    ELSE DeepEach(recursiveSendFilesDeep(s, net, PathJoin(dir, Head(subDirs)), chatId, fileName),
                  net, chatId, dir, fileName, Tail(subDirs))

recursiveSendFilesDeep(s, net, dir, chatId, fileName) ==
    IF s.threw THEN s
    ELSE IF ~DirExists(s.disk, dir) THEN Throw(s)
    ELSE LET files == Tree[dir].files
             subDirs == Tree[dir].dirs
             multimediaFiles == getMultimediaFiles(files)
             s1 == sendMessage(s, net, chatId, "summary", dir,
                               <<Len(files), Len(subDirs), Len(multimediaFiles),
                                 SliceTo(files, ExampleCount),
                                 SliceTo(subDirs, ExampleCount)>>)
             s2 == IF Len(multimediaFiles) > 0
                   THEN askToSendMultimediaFiles(s1, net, chatId, dir, fileName)
                   ELSE s1
             s3 == IF Len(subDirs) > 0
                   THEN askToExploreSubdirectories(s2, net, chatId, dir, fileName)
                   ELSE s2
         IN DeepEach(s3, net, chatId, dir, fileName, subDirs)

\* recursiveSendFiles asking about the subdirectories only after it asked
\* about the multimedia files.
recursiveSendFilesNested(s, net, dir, chatId, fileName) ==
    IF s.threw THEN s
    ELSE IF ~DirExists(s.disk, dir) THEN Throw(s)
    ELSE LET files == Tree[dir].files
             subDirs == Tree[dir].dirs
             multimediaFiles == getMultimediaFiles(files)
             s1 == sendMessage(s, net, chatId, "summary", dir,
                               <<Len(files), Len(subDirs), Len(multimediaFiles),
                                 SliceTo(files, ExampleCount),
                                 SliceTo(subDirs, ExampleCount)>>)
         IN IF Len(multimediaFiles) > 0
            THEN LET s2 == askToSendMultimediaFiles(s1, net, chatId, dir, fileName)
                 IN IF Len(subDirs) > 0
                    THEN askToExploreSubdirectories(s2, net, chatId, dir, fileName)
                    ELSE s2
            ELSE s1

\* recursiveSendFiles: the summary of one directory and its prompts.
\* info of the summary: <<files, sub directories, multimedia files, the
\* example files listed, the example subdirectories listed>>.
recursiveSendFiles(s, net, dir, chatId, fileName) ==
    IF s.threw THEN s
    ELSE IF ~DirExists(s.disk, dir) THEN Throw(s)
    ELSE LET files == Tree[dir].files
             subDirs == Tree[dir].dirs
             multimediaFiles == getMultimediaFiles(files)
             s1 == sendMessage(s, net, chatId, "summary", dir,
                               <<Len(files), Len(subDirs), Len(multimediaFiles),
                                 SliceTo(files, ExampleCount),
                                 SliceTo(subDirs, ExampleCount)>>)
             s2 == IF Len(multimediaFiles) > 0
                   THEN askToSendMultimediaFiles(s1, net, chatId, dir, fileName)
                   ELSE s1
         IN IF Len(subDirs) > 0
            THEN askToExploreSubdirectories(s2, net, chatId, dir, fileName)
            ELSE s2

\* String.prototype.startsWith
StartsWith(s, prefix) ==
    Len(s) >= Len(prefix) /\ SubSeq(s, 1, Len(prefix)) = prefix

\* Index of the first occurrence of character c in s at or after i, 0 if
\* there is none.
RECURSIVE IndexOf(_, _, _)
IndexOf(s, c, i) ==
    IF i > Len(s) THEN 0
    ELSE IF s[i] = c THEN i
    ELSE IndexOf(s, c, i + 1)

\* String.prototype.split(':')
RECURSIVE Split(_)
Split(s) ==
    LET i == IndexOf(s, ":", 1)
    IN IF i = 0 THEN <<s>>
       ELSE <<SubSeq(s, 1, i - 1)>> \o Split(SubSeq(s, i + 1, Len(s)))

\* Element i (from 1) of a destructured array; a missing element
\* (undefined) is no path at all.
Nth(parts, i) == IF i <= Len(parts) THEN parts[i] ELSE NoChars

\* The loop of handleSendMediaFileResponse over multimediaFiles.
RECURSIVE SendEach(_, _, _, _, _)
SendEach(s, net, chatId, dir, files) ==
    IF files = << >> \/ s.threw THEN s
    ELSE SendEach(sendFile(s, net, chatId, PathJoin(dir, Head(files))),
                  net, chatId, dir, Tail(files))

\* handleSendMediaFileResponse passing every regular file to sendFile.
handleSendMediaFileResponseAll(s, net, chatId, dir, fileName) ==
    IF s.threw THEN s
    ELSE IF ~DirExists(s.disk, dir) THEN Throw(s)
    ELSE SendEach(s, net, chatId, dir, Tree[dir].files)

handleSendMediaFileResponse(s, net, chatId, dir, fileName) ==
    IF s.threw THEN s
    ELSE IF ~DirExists(s.disk, dir) THEN Throw(s)
    ELSE SendEach(s, net, chatId, dir, getMultimediaFiles(Tree[dir].files))

\* The loop of handleExploreSubdirsResponse over subDirs.
RECURSIVE ExploreEach(_, _, _, _, _, _)
ExploreEach(s, net, chatId, dir, fileName, subDirs) ==
    IF subDirs = << >> \/ s.threw THEN s
    ELSE ExploreEach(recursiveSendFiles(s, net, PathJoin(dir, Head(subDirs)), chatId, fileName),
                     net, chatId, dir, fileName, Tail(subDirs))

handleExploreSubdirsResponse(s, net, chatId, dir, fileName) ==
    IF s.threw THEN s
    ELSE IF ~DirExists(s.disk, dir) THEN Throw(s)
    ELSE ExploreEach(s, net, chatId, dir, fileName, Tree[dir].dirs)

handleMessage(s, net, chatId, message) ==
    IF message = TextStart
    THEN sendMessage(s, net, chatId, "welcome", NoChars, << >>)
    ELSE sendMessage(s, net, chatId, "unknown_command", NoChars, << >>)

\* PendingEntry keyed by the chat instead of the poll.
PendingEntryByChat(pollId, filePath, fileName, chatId) ==
    [pollId |-> chatId, filePath |-> filePath, fileName |-> fileName, chatId |-> chatId]

\* The record handleArchive pushes.
PendingEntry(pollId, filePath, fileName, chatId) ==
    [pollId |-> pollId, filePath |-> filePath, fileName |-> fileName, chatId |-> chatId]

\* handleArchive registering the archive as soon as it is downloaded, before
\* the poll is sent.
handleArchiveEager(s, net, chatId, file_name) ==
    LET s1 == sendMessage(s, net, chatId, "downloading", file_name, << >>)
        s2 == downloadFile(s1, net, chatId, file_name)
        file_path == ServerFilePath(file_name)
        s3 == sendDownloadPathMessage(s2, net, chatId, file_path)
        s3p == IF s3.threw THEN s3
               ELSE [s3 EXCEPT !.polls = Append(@, PendingEntry(s3.nextPoll, file_path,
                                                                file_name, chatId))]
    IN sendPoll(s3p, net, chatId)

handleArchive(s, net, chatId, file_name) ==
    LET s1 == sendMessage(s, net, chatId, "downloading", file_name, << >>)
        s2 == downloadFile(s1, net, chatId, file_name)
        file_path == ServerFilePath(file_name)
        s3 == sendDownloadPathMessage(s2, net, chatId, file_path)
        s4 == sendPoll(s3, net, chatId)
        pollId == s3.nextPoll
    IN IF s4.threw THEN s4
       ELSE [s4 EXCEPT !.polls = Append(@, PendingEntry(pollId, file_path, file_name, chatId))]

\* findIndex((p) => p.pollId === id): the first matching index (from 1),
\* 0 for -1.
RECURSIVE FindIndex(_, _, _)
FindIndex(polls, id, i) ==
    IF i > Len(polls) THEN 0
    ELSE IF polls[i].pollId = id THEN i
    ELSE FindIndex(polls, id, i + 1)

\* Splice that removes nothing.
SpliceNothing(seq, i) == seq

\* splice(i, 1)
Splice(seq, i) == SubSeq(seq, 1, i - 1) \o SubSeq(seq, i + 1, Len(seq))

\* PollNotFound as an earlier version had it: a message is sent.
PollNotFoundNotify(s, net) == sendMessage(s, net, 0, "poll_not_found", NoChars, << >>)

\* The pollIndex === -1 branch: console.error and return.
PollNotFound(s, net) == s

\* handlePollResponse sending the media files of the extraction directory
\* right after the summary, without waiting for a confirmation.
handlePollResponseAutoSend(s, net, poll_id, vote) ==
    LET pollIndex == FindIndex(s.polls, poll_id, 1)
    IN IF pollIndex = 0 THEN PollNotFound(s, net)
       ELSE LET p == s.polls[pollIndex]
                s1 == [s EXCEPT !.polls = Splice(@, pollIndex), !.found = TRUE]
            IN IF vote = "" THEN Throw(s1)
               ELSE IF vote = "Yes"
               THEN LET extension == ExtName(p.filePath)
                        unzipDir == PathJoin(UNZIP_DIR, BaseNameNoExt(p.filePath, extension))
                        s2 == extractArchive(s1, net, p.filePath, unzipDir)
                        s3 == recursiveSendFiles(s2, net, unzipDir, p.chatId, p.fileName)
                    IN handleSendMediaFileResponse(s3, net, p.chatId, unzipDir, p.fileName)
               ELSE sendMessage(s1, net, p.chatId, "process_completed", p.fileName, << >>)

\* handlePollResponse removing the entry only once the processing of the
\* result has ended without an exception.
handlePollResponseLateSplice(s, net, poll_id, vote) ==
    LET pollIndex == FindIndex(s.polls, poll_id, 1)
    IN IF pollIndex = 0 THEN PollNotFound(s, net)
       ELSE LET p == s.polls[pollIndex]
                s1 == [s EXCEPT !.found = TRUE]
                r == IF vote = "" THEN Throw(s1)
                     ELSE IF vote = "Yes"
                     THEN LET extension == ExtName(p.filePath)
                              unzipDir == PathJoin(UNZIP_DIR, BaseNameNoExt(p.filePath, extension))
                              s2 == extractArchive(s1, net, p.filePath, unzipDir)
                          IN recursiveSendFiles(s2, net, unzipDir, p.chatId, p.fileName)
                     ELSE sendMessage(s1, net, p.chatId, "process_completed", p.fileName, << >>)
            IN IF r.threw THEN r ELSE [r EXCEPT !.polls = Splice(@, pollIndex)]

handlePollResponse(s, net, poll_id, vote) ==
    LET pollIndex == FindIndex(s.polls, poll_id, 1)
    IN IF pollIndex = 0 THEN PollNotFound(s, net)
       ELSE LET p == s.polls[pollIndex]
                s1 == [s EXCEPT !.polls = Splice(@, pollIndex), !.found = TRUE]
            IN IF vote = "" THEN Throw(s1)
               ELSE IF vote = "Yes"
               THEN LET extension == ExtName(p.filePath)
                        unzipDir == PathJoin(UNZIP_DIR, BaseNameNoExt(p.filePath, extension))
                        s2 == extractArchive(s1, net, p.filePath, unzipDir)
                    IN recursiveSendFiles(s2, net, unzipDir, p.chatId, p.fileName)
               ELSE sendMessage(s1, net, p.chatId, "process_completed", p.fileName, << >>)

\* IsArchiveName accepting .7z as well.
IsArchiveNameWith7z(file_name) ==
    EndsWith(file_name, ZipExt) \/ EndsWith(file_name, RarExt)
        \/ EndsWith(file_name, <<".", "7", "z">>)

\* The test of handleDocument.
IsArchiveName(file_name) == EndsWith(file_name, ZipExt) \/ EndsWith(file_name, RarExt)

handleDocument(s, net, chatId, file_name) ==
    IF IsArchiveName(file_name)
    THEN handleArchive(s, net, chatId, file_name)
    ELSE sendMessage(s, net, chatId, "unsupported_document", NoChars, << >>)

\* The name the server stores a photo or video under.
MediaName == <<"m">>

\* The loop of handleMultimedia over the n elements of its argument.
RECURSIVE DownloadEach(_, _, _, _)
DownloadEach(s, net, chatId, n) ==
    IF n = 0 \/ s.threw THEN s
    ELSE LET s1 == downloadFile(s, net, chatId, MediaName)
             s2 == sendDownloadPathMessage(s1, net, chatId, ServerFilePath(MediaName))
         IN DownloadEach(s2, net, chatId, n - 1)

\* handleMultimedia iterates its argument with for...of: message.photo is
\* an array of n sizes, message.video is a single object, which is not
\* iterable.
handleMultimedia(s, net, chatId, n, iterable) ==
    IF ~iterable THEN Throw(s) ELSE DownloadEach(s, net, chatId, n)

\* The branch handleCallbackQuery takes for a payload: message === 'ignore',
\* message.startsWith('send_media_files'), message.startsWith(
\* 'explore_subdirs'), or none (NoChars).
CallbackAction(message) ==
    IF message = Ignore THEN Ignore
    ELSE IF StartsWith(message, SendMediaFiles) THEN SendMediaFiles
    ELSE IF StartsWith(message, ExploreSubdirs) THEN ExploreSubdirs
    ELSE NoChars

\* const [_, dir, fileName] = message.split(':')
CallbackDir(message) == Nth(Split(message), 2)

CallbackFileName(message) == Nth(Split(message), 3)

\* handleCallbackQuery taking the archive of a confirmation from the pending
\* store: the oldest entry is removed when a button is pressed.
handleCallbackQueryConsume(s, net, chatId, message) ==
    LET s0 == [s EXCEPT !.polls = IF @ = << >> THEN @ ELSE Tail(@)]
        s1 == deleteMessage(s0, net, chatId)
        action == CallbackAction(message)
    IN IF action = Ignore THEN s1
       ELSE IF action = SendMediaFiles
       THEN handleSendMediaFileResponse(s1, net, chatId, CallbackDir(message),
                                        CallbackFileName(message))
       ELSE IF action = ExploreSubdirs
       THEN handleExploreSubdirsResponse(s1, net, chatId, CallbackDir(message),
                                         CallbackFileName(message))
       ELSE s1

handleCallbackQuery(s, net, chatId, message) ==
    LET s1 == deleteMessage(s, net, chatId)
        action == CallbackAction(message)
    IN IF action = Ignore THEN s1
       ELSE IF action = SendMediaFiles
       THEN handleSendMediaFileResponse(s1, net, chatId, CallbackDir(message),
                                        CallbackFileName(message))
       ELSE IF action = ExploreSubdirs
       THEN handleExploreSubdirsResponse(s1, net, chatId, CallbackDir(message),
                                         CallbackFileName(message))
       ELSE s1

\* handleUpdate testing document before photo and video.
handleUpdateDocumentFirst(s, net, u) ==
    IF u.kind = "message"
    THEN IF u.document THEN handleDocument(s, net, u.chat, u.file_name)
         ELSE IF u.photo > 0 THEN handleMultimedia(s, net, u.chat, u.photo, TRUE)
         ELSE IF u.video THEN handleMultimedia(s, net, u.chat, 1, FALSE)
         ELSE IF u.text # NoChars THEN handleMessage(s, net, u.chat, u.text)
         ELSE sendMessage(s, net, u.chat, "unknown_message", NoChars, << >>)
    ELSE IF u.kind = "poll" THEN handlePollResponse(s, net, u.poll_id, u.vote)
    ELSE IF u.kind = "callback_query" THEN handleCallbackQuery(s, net, u.chat, u.data)
    ELSE s

handleUpdate(s, net, u) ==
    IF u.kind = "message"
    THEN IF u.photo > 0 THEN handleMultimedia(s, net, u.chat, u.photo, TRUE)
         ELSE IF u.video THEN handleMultimedia(s, net, u.chat, 1, FALSE)
         ELSE IF u.document THEN handleDocument(s, net, u.chat, u.file_name)
         ELSE IF u.text # NoChars THEN handleMessage(s, net, u.chat, u.text)
         ELSE sendMessage(s, net, u.chat, "unknown_message", NoChars, << >>)
    ELSE IF u.kind = "poll" THEN handlePollResponse(s, net, u.poll_id, u.vote)
    ELSE IF u.kind = "callback_query" THEN handleCallbackQuery(s, net, u.chat, u.data)
    ELSE s

\* ------------------------------------------------------------- state
VARIABLES
    pc,        \* where the loop of the IIFE stands: "loop" (about to call
               \* getUpdates), "await" (request sent), "dispatch" (inside for
               \* (const update of updates))
    offset,    \* let offset
    firstRun,  \* let firstRun
    updates,   \* the updates of the batch still to be visited by the for loop
    polls,     \* LEFT_OVER_POLLS['archive_polls']
    disk,      \* the extraction directories present under UNZIP_DIR
    queue,     \* server: the updates not yet confirmed, oldest first
    nextId,    \* server: update_id of the next update
    nextPoll,  \* server: id of the next poll
    buttons,   \* server: the inline buttons users can press
    reqOffset, \* the offset parameter of the latest getUpdates request
    lastResp,  \* how the latest getUpdates request ended: "ok", "error", or
               \* "none" while it is open
    handled,   \* handled[id]: how many times handleUpdate was called on update id
    skipped,   \* the update ids in the response the first-run branch skipped
    resolved,  \* the poll ids handlePollResponse has found and removed
    last,      \* the latest call of handleUpdate: the update, the calls it
               \* made, whether it threw, whether it matched a pending poll,
               \* and what the guard around it did: "none" (no exception),
               \* "notified" (failure message sent, loop goes on), "escaped"
               \* (the catch block itself threw)
    running,   \* the updates whose handleUpdate call has started and has not
               \* yet completed or failed
    fnIn,      \* the arguments a function is applied to on its own
    fnOut      \* what that function returned

vars == <<pc, offset, firstRun, updates, polls, disk, queue, nextId, nextPoll,
          buttons, reqOffset, lastResp, handled, skipped, resolved, last,
          running, fnIn, fnOut>>

UpdateIds == 1..MaxUpdates

\* No function applied on its own: the loop runs.
NoInput ==
    [fn |-> "none", a |-> NoChars, b |-> NoChars, c |-> NoChars, u |-> BlankUpdate]

NoOutput ==
    [done |-> FALSE, route |-> "", counted |-> FALSE, payload |-> NoChars,
     action |-> NoChars, dir |-> NoChars, fileName |-> NoChars,
     calls |-> << >>, threw |-> FALSE, found |-> FALSE, changed |-> FALSE,
     alone |-> << >>, after |-> << >>, kept |-> FALSE]

\* The state of the IIFE after setupBot, before the first getUpdates.
InitLoop ==
    /\ pc = "loop"
    /\ offset = 0
    /\ firstRun = TRUE
    /\ updates = << >>
    /\ polls = << >>
    /\ disk = {}
    /\ queue = << >>
    /\ nextId = 1
    /\ nextPoll = 1
    /\ buttons = {}
    /\ reqOffset = 0
    /\ lastResp = "none"
    /\ handled = [i \in UpdateIds |-> 0]
    /\ skipped = {}
    /\ resolved = {}
    /\ last = [update |-> BlankUpdate, calls |-> << >>, threw |-> FALSE,
               found |-> FALSE, guard |-> "none"]
    /\ running = {}

Init == InitLoop /\ fnIn = NoInput /\ fnOut = NoOutput

\* ------------------------------------------------------------- server
\* A callback payload left from an earlier run, whose directory is gone.
StaleData == ExploreSubdirs \o Colon \o PathJoin(UNZIP_DIR, <<"x">>) \o Colon \o NameZip

\* The updates users can cause in the current state: messages, votes in
\* the polls the bot has sent (and in a poll of an earlier run, id 0),
\* presses of the buttons the bot has shown (and of one of an earlier run),
\* and an update of a kind the bot does not know.
MessagePayloads ==
    UNION { { [Message(c) EXCEPT !.text = TextStart],
              [Message(c) EXCEPT !.video = TRUE] }
            \cup { [Message(c) EXCEPT !.document = TRUE, !.file_name = f] : f \in FileNames }
          : c \in Chats }

PollPayloads ==
    { [BlankUpdate EXCEPT !.kind = "poll", !.poll_id = i, !.vote = v]
      : i \in 1..(nextPoll - 1), v \in {"Yes", "No", ""} }
    \cup { [BlankUpdate EXCEPT !.kind = "poll", !.poll_id = 0, !.vote = "Yes"] }

CallbackPayloads ==
    { [BlankUpdate EXCEPT !.kind = "callback_query", !.chat = b.chat, !.data = b.data]
      : b \in buttons \cup { [chat |-> c, data |-> StaleData] : c \in Chats } }

Payloads == MessagePayloads \cup PollPayloads \cup CallbackPayloads \cup {BlankUpdate}

\* A user acts: the server queues an update under the next update_id.  The
\* bot sees the queue only in the answer to a request, so an update queued
\* at any other moment is one queued while the next request is open.
Arrive ==
    /\ pc = "await"
    /\ nextId <= MaxUpdates
    /\ Len(queue) < MaxQueue
    /\ \E p \in Payloads : queue' = Append(queue, [p EXCEPT !.update_id = nextId])
    /\ nextId' = nextId + 1
    /\ UNCHANGED <<running, fnIn, fnOut>>
    /\ UNCHANGED <<pc, offset, firstRun, updates, polls, disk, nextPoll, buttons,
                   reqOffset, lastResp, handled, skipped, resolved, last>>

\* The updates with update_id >= o, oldest first.
RECURSIVE From(_, _)
From(q, o) ==
    IF q = << >> THEN << >>
    ELSE IF Head(q).update_id >= o THEN <<Head(q)>> \o From(Tail(q), o)
    ELSE From(Tail(q), o)

\* ------------------------------------------------------------- dispatch loop
\* SendGetUpdates asking one update further than the cursor.
SendGetUpdatesAhead ==
    /\ pc = "loop"
    /\ pc' = "await"
    /\ reqOffset' = offset + 1
    /\ lastResp' = "none"
    /\ queue' = From(queue, offset + 1)
    /\ UNCHANGED <<running, fnIn, fnOut>>
    /\ UNCHANGED <<offset, firstRun, updates, polls, disk, nextId, nextPoll, buttons,
                   handled, skipped, resolved, last>>

\* client.get('/getUpdates', {params: {offset, ...}}): the request reaches
\* the server, which forgets the updates below offset.
SendGetUpdates ==
    /\ pc = "loop"
    /\ pc' = "await"
    /\ reqOffset' = offset
    /\ lastResp' = "none"
    /\ queue' = From(queue, offset)
    /\ UNCHANGED <<running, fnIn, fnOut>>
    /\ UNCHANGED <<offset, firstRun, updates, polls, disk, nextId, nextPoll, buttons,
                   handled, skipped, resolved, last>>

\* GetUpdatesFail without the outer try/catch: the rejection ends the IIFE.
GetUpdatesFailFatal ==
    /\ pc = "await"
    /\ pc' = "exited"
    /\ lastResp' = "error"
    /\ UNCHANGED <<running, fnIn, fnOut>>
    /\ UNCHANGED <<offset, firstRun, updates, polls, disk, queue, nextId, nextPoll,
                   buttons, reqOffset, handled, skipped, resolved, last>>

\* GetUpdatesFail starting over from the beginning of the stream.
GetUpdatesFailRestart ==
    /\ pc = "await"
    /\ pc' = "loop"
    /\ lastResp' = "error"
    /\ offset' = 0
    /\ UNCHANGED <<running, fnIn, fnOut>>
    /\ UNCHANGED <<firstRun, updates, polls, disk, queue, nextId, nextPoll,
                   buttons, reqOffset, handled, skipped, resolved, last>>

\* The request fails: the outer catch logs, the while loop goes round.
GetUpdatesFail ==
    /\ pc = "await"
    /\ pc' = "loop"
    /\ lastResp' = "error"
    /\ UNCHANGED <<running, fnIn, fnOut>>
    /\ UNCHANGED <<offset, firstRun, updates, polls, disk, queue, nextId, nextPoll,
                   buttons, reqOffset, handled, skipped, resolved, last>>

\* SkipOffset taking the first update of the response instead of the last.
SkipOffsetFirst(result, o) ==
    IF Len(result) # 0 THEN result[1].update_id + 1 ELSE o

\* offset after the first-run branch, for the response result.
SkipOffset(result, o) ==
    IF Len(result) # 0 THEN result[Len(result)].update_id + 1 ELSE o

\* The first response: if (firstRun) { ...; firstRun = false; continue; }
SkipBacklog ==
    /\ pc = "await"
    /\ firstRun
    /\ LET result == From(queue, reqOffset)
       IN /\ offset' = SkipOffset(result, offset)
          /\ skipped' = {result[i].update_id : i \in 1..Len(result)}
    /\ firstRun' = FALSE
    /\ pc' = "loop"
    /\ lastResp' = "ok"
    /\ UNCHANGED <<running, fnIn, fnOut>>
    /\ UNCHANGED <<updates, polls, disk, queue, nextId, nextPoll, buttons,
                   reqOffset, handled, resolved, last>>

\* A later response: const updates = response.data.result, and the for
\* loop starts (an empty batch ends it at once).
ReceiveUpdates ==
    /\ pc = "await"
    /\ ~firstRun
    /\ LET result == From(queue, reqOffset)
       IN /\ updates' = result
          /\ pc' = IF result = << >> THEN "loop" ELSE "dispatch"
    /\ lastResp' = "ok"
    /\ UNCHANGED <<running, fnIn, fnOut>>
    /\ UNCHANGED <<offset, firstRun, polls, disk, queue, nextId, nextPoll, buttons,
                   reqOffset, handled, skipped, resolved, last>>

\* NextOffset with the cursor put back before the update.
NextOffsetRewind(u) == u.update_id - 1

\* NextOffset without the + 1: the update is never confirmed.
NextOffsetNoAck(u) == u.update_id

\* NextOffset stepping over the update after this one.
NextOffsetSkipAhead(u) == u.update_id + 2

\* offset = update.update_id + 1
NextOffset(u) == u.update_id + 1

\* The catch around handleUpdate: sendMessage(update.message.chat.id, ...)
\* notifies the chat of a message; without update.message the property
\* access throws and the exception leaves the for loop.
InnerCatch(u) == IF u.kind = "message" THEN "notified" ELSE "escaped"

\* One iteration of for (const update of updates).
HandleNext ==
    /\ pc = "dispatch"
    /\ updates # << >>
    /\ \E net \in 0..MaxCalls :
         LET u == Head(updates)
             r == handleUpdate(Start(polls, nextPoll, disk, buttons), net, u)
             guard == IF r.threw THEN InnerCatch(u) ELSE "none"
             rest == IF guard = "escaped" THEN << >> ELSE Tail(updates)
         IN /\ offset' = NextOffset(u)
            /\ handled' = [handled EXCEPT ![u.update_id] = @ + 1]
            /\ polls' = r.polls
            /\ disk' = r.disk
            /\ nextPoll' = r.nextPoll
            /\ buttons' = r.buttons
            /\ resolved' = IF r.found THEN resolved \cup {u.poll_id} ELSE resolved
            /\ last' = [update |-> u, calls |-> r.calls, threw |-> r.threw,
                        found |-> r.found, guard |-> guard]
            /\ updates' = rest
            /\ pc' = IF rest = << >> THEN "loop" ELSE "dispatch"
    /\ UNCHANGED <<running, fnIn, fnOut>>
    /\ UNCHANGED <<firstRun, queue, nextId, reqOffset, lastResp, skipped>>

Next ==
    \/ Arrive
    \/ SendGetUpdates
    \/ GetUpdatesFail
    \/ SkipBacklog
    \/ ReceiveUpdates
    \/ HandleNext

Spec == Init /\ [][Next]_vars

\* What every iteration of the for loop does, whatever the handler does:
\* the steps of HandleNext are the steps that count an update as handled.
DispatchProgress ==
    /\ pc = "dispatch"
    /\ updates # << >>
    /\ handled' = [handled EXCEPT ![Head(updates).update_id] = @ + 1]

\* Every awaited call runs to completion or failure, and the loop body is
\* always executed further: a request that can be sent is sent, an open
\* request is answered or fails, a started for loop visits its next update.
FairSpec ==
    /\ Spec
    /\ WF_vars(SendGetUpdates)
    /\ WF_vars(GetUpdatesFail \/ SkipBacklog \/ ReceiveUpdates)
    /\ WF_handled(DispatchProgress)

\* FairSpec with a server that does not fail for ever: a request is sent
\* again and again, so one of them is answered.
AnsweredSpec == FairSpec /\ SF_vars(ReceiveUpdates)

\* ------------------------------------------------------------- functions on their own
\* The file classification and the callback payload are functions of their
\* arguments alone.  FunctionSpec applies them to arguments the loop's
\* archives do not produce: every extension the bot is documented to
\* support, some other extensions, names with several dots, and directories
\* and file names that contain a colon.
DocumentedPhotoTypes ==
    { <<"j", "p", "g">>, <<"j", "p", "e", "g">>, <<"p", "n", "g">>,
      <<"g", "i", "f">>, <<"w", "e", "b", "p">>, <<"t", "i", "f", "f">> }

DocumentedVideoTypes ==
    { <<"m", "p", "4">>, <<"a", "v", "i">>, <<"m", "o", "v">>,
      <<"m", "k", "v">>, <<"w", "e", "b", "m">>, <<"t", "s">> }

OtherTypes ==
    { <<"t", "x", "t">>, <<"z", "i", "p">>, <<"P", "N", "G">>, <<"M", "P", "4">> }

FileStems == { <<"x">>, <<"a", ".", "b">>, <<"m", "p", "4">> }

NameColonZip == <<"c", ":", "d", ".", "z", "i", "p">>
DirColon == PathJoin(UNZIP_DIR, <<"c", ":", "d">>)

ClassifyInputs ==
    { [NoInput EXCEPT !.fn = "classify", !.a = stem, !.b = ext]
      : stem \in FileStems,
        ext \in DocumentedPhotoTypes \cup DocumentedVideoTypes \cup OtherTypes }

CallbackInputs ==
    { [NoInput EXCEPT !.fn = "callback", !.a = dir, !.b = fileName, !.c = action]
      : dir \in {DirA, DirAS, DirColon},
        fileName \in {NameZip, NameRar, NameColonZip},
        action \in {SendMediaFiles, ExploreSubdirs, Ignore} }

\* Every directory of the model's archives.
SummaryInputs == { [NoInput EXCEPT !.fn = "summary", !.a = dir] : dir \in DOMAIN Tree }

\* A directory and the prompt the user answers first.
PromptInputs ==
    { [NoInput EXCEPT !.fn = "prompts", !.a = dir, !.c = first]
      : dir \in DOMAIN Tree, first \in {SendMediaFiles, ExploreSubdirs} }

\* A text that is no command.
TextOther == <<"h", "i">>

\* Updates of every shape handleUpdate tells apart: messages with any
\* combination of photo, video, document and text, poll results (poll 1 is
\* registered, poll 0 is not), button presses, and an update of no known
\* kind.
RouteUpdates ==
    { [Message(7) EXCEPT !.photo = photo, !.video = video, !.document = (doc # NoChars),
                         !.file_name = doc, !.text = text]
      : photo \in {0, 2}, video \in BOOLEAN, doc \in {NoChars, NameZip, Name7z},
        text \in {NoChars, TextStart, TextOther} }
    \cup { [BlankUpdate EXCEPT !.kind = "poll", !.poll_id = i, !.vote = "No"] : i \in {0, 1} }
    \cup { [BlankUpdate EXCEPT !.kind = "callback_query", !.chat = 7, !.data = data]
           : data \in {Ignore, StaleData} }
    \cup { BlankUpdate }

RouteInputs == { [NoInput EXCEPT !.fn = "route", !.u = u] : u \in RouteUpdates }

FunctionInit ==
    /\ InitLoop
    /\ fnIn \in ClassifyInputs \cup CallbackInputs \cup SummaryInputs \cup PromptInputs
                \cup RouteInputs
    /\ fnOut = NoOutput

\* The file stem.ext of a directory is classified twice: sendFile routes its
\* path, getMultimediaFiles counts its name.
Classify ==
    /\ fnIn.fn = "classify" /\ ~fnOut.done
    /\ LET name == fnIn.a \o <<Dot>> \o fnIn.b
           r == sendFile(Start(<< >>, 1, {}, {}), 0, 0, PathJoin(DirA, name))
       IN fnOut' = [NoOutput EXCEPT !.done = TRUE,
                                    !.route = IF r.calls[1].op = "sendMessage"
                                              THEN r.calls[1].what
                                              ELSE r.calls[1].op,
                                    !.counted = (getMultimediaFiles(<<name>>) = <<name>>)]
    /\ UNCHANGED <<pc, offset, firstRun, updates, polls, disk, queue, nextId, nextPoll,
                   buttons, reqOffset, lastResp, handled, skipped, resolved, last,
                   running, fnIn>>

\* A prompt for (dir, fileName) is sent, one of its buttons is pressed (Yes
\* of the send-media prompt, Yes of the explore prompt, or No), and
\* handleCallbackQuery takes the payload apart.
RoundTrip ==
    /\ fnIn.fn = "callback" /\ ~fnOut.done
    /\ LET s == Start(<< >>, 1, {}, {})
           r == IF fnIn.c = ExploreSubdirs
                THEN askToExploreSubdirectories(s, 0, 0, fnIn.a, fnIn.b)
                ELSE askToSendMultimediaFiles(s, 0, 0, fnIn.a, fnIn.b)
           pressed == CHOOSE x \in r.buttons : (x.data = Ignore) <=> (fnIn.c = Ignore)
       IN fnOut' = [NoOutput EXCEPT !.done = TRUE,
                                    !.payload = pressed.data,
                                    !.action = CallbackAction(pressed.data),
                                    !.dir = CallbackDir(pressed.data),
                                    !.fileName = CallbackFileName(pressed.data)]
    /\ UNCHANGED <<pc, offset, firstRun, updates, polls, disk, queue, nextId, nextPoll,
                   buttons, reqOffset, lastResp, handled, skipped, resolved, last,
                   running, fnIn>>

\* recursiveSendFiles is run on a directory of an extracted archive.
Summarise ==
    /\ fnIn.fn = "summary" /\ ~fnOut.done
    /\ LET r == recursiveSendFiles(Start(<< >>, 1, {ArchiveRoot(fnIn.a)}, {}), 0,
                                   fnIn.a, 0, NameZip)
       IN fnOut' = [NoOutput EXCEPT !.done = TRUE, !.calls = r.calls, !.threw = r.threw]
    /\ UNCHANGED <<pc, offset, firstRun, updates, polls, disk, queue, nextId, nextPoll,
                   buttons, reqOffset, lastResp, handled, skipped, resolved, last,
                   running, fnIn>>

\* The handler run that starts in the state handler run s ended in.
Continue(s) == Start(s.polls, s.nextPoll, s.disk, s.buttons)

\* recursiveSendFiles reports a directory; the user presses Yes on the
\* prompt fnIn.c (if it was shown) and then Yes on the other prompt (if it
\* was shown).  after: the calls the second confirmation's handler makes;
\* alone: the calls it makes when the first prompt was not answered; kept:
\* the other prompt's button is still there after the first confirmation.
AnswerPrompts ==
    /\ fnIn.fn = "prompts" /\ ~fnOut.done
    /\ LET dir == fnIn.a
           other == IF fnIn.c = SendMediaFiles THEN ExploreSubdirs ELSE SendMediaFiles
           yesFirst == [chat |-> 7, data |-> fnIn.c \o Colon \o dir \o Colon \o NameZip]
           yesOther == [chat |-> 7, data |-> other \o Colon \o dir \o Colon \o NameZip]
           s0 == recursiveSendFiles(Start(<< >>, 1, {ArchiveRoot(dir)}, {}), 0,
                                    dir, 7, NameZip)
           s1 == IF yesFirst \in s0.buttons
                 THEN handleCallbackQuery(Continue(s0), 0, 7, yesFirst.data)
                 ELSE s0
           s2 == IF yesOther \in s0.buttons
                 THEN handleCallbackQuery(Continue(s1), 0, 7, yesOther.data)
                 ELSE Continue(s1)
           s2alone == IF yesOther \in s0.buttons
                      THEN handleCallbackQuery(Continue(s0), 0, 7, yesOther.data)
                      ELSE Continue(s0)
       IN fnOut' = [NoOutput EXCEPT !.done = TRUE,
                                    !.calls = s0.calls,
                                    !.threw = s1.threw \/ s2.threw,
                                    !.after = s2.calls,
                                    !.alone = s2alone.calls,
                                    !.kept = (yesOther \in s0.buttons => yesOther \in s1.buttons)]
    /\ UNCHANGED <<pc, offset, firstRun, updates, polls, disk, queue, nextId, nextPoll,
                   buttons, reqOffset, lastResp, handled, skipped, resolved, last,
                   running, fnIn>>

\* The state handleUpdate is applied to on its own: the poll (id 1) of
\* a.zip is pending, b.rar was extracted earlier.
RouteStart ==
    Start(<< PendingEntry(1, ServerFilePath(NameZip), NameZip, 7) >>, 2, {DirB}, {})

\* handleUpdate is applied to one update, every request succeeding.
Route ==
    /\ fnIn.fn = "route" /\ ~fnOut.done
    /\ LET r == handleUpdate(RouteStart, 0, fnIn.u)
       IN fnOut' = [NoOutput EXCEPT !.done = TRUE,
                                    !.calls = r.calls,
                                    !.threw = r.threw,
                                    !.found = r.found,
                                    !.changed = (Continue(r) # RouteStart)]
    /\ UNCHANGED <<pc, offset, firstRun, updates, polls, disk, queue, nextId, nextPoll,
                   buttons, reqOffset, lastResp, handled, skipped, resolved, last,
                   running, fnIn>>

FunctionNext == Classify \/ RoundTrip \/ Summarise \/ AnswerPrompts \/ Route

FunctionSpec == FunctionInit /\ [][FunctionNext]_vars

\* ------------------------------------------------------------- handlers in time
\* SeqSpec is the loop of Spec with the call of handleUpdate taking time:
\* StartHandle is the call, FinishHandle the moment its promise settles.
\* In between the handler is suspended at its awaited calls; its effects on
\* the store, the disk and the server are those of handleUpdate.

\* LoopAfterCall without the await: the for loop goes on at once.
LoopAfterCallNoAwait(rest) == IF rest = << >> THEN "loop" ELSE "dispatch"

\* await handleUpdate(update): the loop is suspended until the promise of
\* the call settles.
LoopAfterCall(rest) == "handling"

\* for (const update of updates) { offset = ...; await handleUpdate(update)
StartHandle ==
    /\ pc = "dispatch"
    /\ updates # << >>
    /\ LET u == Head(updates)
       IN /\ offset' = NextOffset(u)
          /\ handled' = [handled EXCEPT ![u.update_id] = @ + 1]
          /\ running' = running \cup {u}
          /\ updates' = Tail(updates)
          /\ pc' = LoopAfterCall(Tail(updates))
    /\ UNCHANGED <<firstRun, polls, disk, queue, nextId, nextPoll, buttons, reqOffset,
                   lastResp, skipped, resolved, last, fnIn, fnOut>>

\* The promise of a started handleUpdate settles; a loop suspended on it
\* resumes: with the next update, or through the catch blocks.
FinishHandle ==
    /\ running # {}
    /\ \E u \in running, net \in 0..MaxCalls :
         LET r == handleUpdate(Start(polls, nextPoll, disk, buttons), net, u)
             guard == IF r.threw THEN InnerCatch(u) ELSE "none"
             rest == IF guard = "escaped" THEN << >> ELSE updates
         IN /\ running' = running \ {u}
            /\ polls' = r.polls
            /\ disk' = r.disk
            /\ nextPoll' = r.nextPoll
            /\ buttons' = r.buttons
            /\ resolved' = IF r.found THEN resolved \cup {u.poll_id} ELSE resolved
            /\ last' = [update |-> u, calls |-> r.calls, threw |-> r.threw,
                        found |-> r.found, guard |-> guard]
            /\ updates' = IF pc = "handling" THEN rest ELSE updates
            /\ pc' = IF pc # "handling" THEN pc
                     ELSE IF rest = << >> THEN "loop" ELSE "dispatch"
    /\ UNCHANGED <<offset, firstRun, queue, nextId, reqOffset, lastResp, handled,
                   skipped, fnIn, fnOut>>

SeqNext ==
    \/ Arrive
    \/ SendGetUpdates
    \/ GetUpdatesFail
    \/ SkipBacklog
    \/ ReceiveUpdates
    \/ StartHandle
    \/ FinishHandle

SeqSpec == Init /\ [][SeqNext]_vars

\* ------------------------------------------------------------- properties
\* A step calls handleUpdate; last' then describes that call.
Dispatched == handled' # handled

SetMax(S) == CHOOSE x \in S : \A y \in S : y <= x

\* C1: the cursor never decreases, whatever getUpdates and handleUpdate do.
C1_CursorMonotonic == [][offset' >= offset]_vars

\* A handler failed with the exception leaving the for loop, the cursor
\* moved on, and a later getUpdates failed.
C1_Witness ==
    /\ offset >= 3 /\ last.guard = "escaped"
    /\ lastResp = "error" /\ reqOffset > last.update.update_id

\* C2: when handleUpdate throws for an update that is not the last of its
\* batch, the loop goes on with the next update of the same batch.
C2_FailureIsolated ==
    [][ (Dispatched /\ last'.threw /\ Len(updates) > 1)
          => (pc' = "dispatch" /\ updates' = Tail(updates)) ]_vars

C4_AtMostOnce ==
    /\ [](\A i \in UpdateIds : handled[i] <= 1)
    /\ [][Dispatched => offset' = last'.update.update_id + 1]_vars

\* The handler of an update threw, and a later request (with a cursor past
\* that update) has been answered.
C4_Witness ==
    /\ last.threw
    /\ handled[last.update.update_id] = 1
    /\ lastResp = "ok" /\ pc = "loop" /\ reqOffset > last.update.update_id

\* C5: a failed getUpdates changes neither the cursor, nor firstRun, nor the
\* pending polls, calls no handler, and the next request carries the same
\* offset as the failed one.
C5_FailedPollRetried ==
    /\ [][ (pc = "await" /\ lastResp' = "error")
             => (pc' = "loop" /\ UNCHANGED <<offset, firstRun, polls, handled, updates>>) ]_vars
    /\ [][ (pc = "loop" /\ lastResp = "error" /\ pc' = "await")
             => reqOffset' = reqOffset ]_vars

\* A request failed after the cursor had moved, with a poll pending and the
\* first run over.
C5_Witness ==
    pc = "loop" /\ lastResp = "error" /\ offset > 0 /\ polls # << >> /\ ~firstRun

\* C6: the updates of the first successful response are never handled; that
\* response leaves the cursor after its last update (unchanged if it is
\* empty) and clears firstRun for good, while a failed request leaves
\* firstRun set; every later non-empty response is dispatched from its
\* first update.
C6_FirstRunSkip ==
    /\ [](\A i \in skipped : handled[i] = 0)
    /\ [][ (firstRun /\ ~firstRun')
             => /\ lastResp' = "ok"
                /\ handled' = handled
                /\ offset' = IF skipped' = {} THEN offset ELSE SetMax(skipped') + 1 ]_vars
    /\ [][ (firstRun /\ lastResp' = "error") => firstRun' ]_vars
    /\ [][ ~firstRun => ~firstRun' ]_vars
    /\ [][ (~firstRun /\ pc = "await" /\ pc' # "await" /\ lastResp' = "ok"
              /\ \E i \in 1..Len(queue) : queue[i].update_id >= reqOffset)
             => (pc' = "dispatch" /\ Head(updates').update_id >= reqOffset) ]_vars

\* Two updates were skipped on the first run and a later one was handled.
C6_Witness == Cardinality(skipped) = 2 /\ \E i \in UpdateIds : handled[i] = 1

\* C7: a poll result for a poll id that was already found and removed takes
\* the not-found path: nothing is extracted, nothing is sent.
C7_ResolvedOnce ==
    [][ (Dispatched /\ last'.update.kind = "poll" /\ last'.update.poll_id \in resolved)
          => /\ ~last'.found
             /\ last'.calls = << >>
             /\ ~last'.threw
             /\ UNCHANGED <<polls, disk>> ]_vars

\* A second result for a resolved poll has been handled.
C7_Witness ==
    last.update.kind = "poll" /\ last.update.poll_id \in resolved /\ ~last.found

\* C8: the pending store holds at most one entry per poll id.
C8_UniqueTokens ==
    \A i, j \in 1..Len(polls) : i # j => polls[i].pollId # polls[j].pollId

\* Two archives are pending at once.
C8_Witness == Len(polls) = 2

\* C9: a poll result whose id is not in the pending store is only logged:
\* no call is made, nothing is thrown, the store is unchanged.
C9_CorrelationMiss ==
    [][ (Dispatched /\ last'.update.kind = "poll"
           /\ \A i \in 1..Len(polls) : polls[i].pollId # last'.update.poll_id)
          => /\ last'.calls = << >>
             /\ ~last'.threw
             /\ last'.guard = "none"
             /\ polls' = polls ]_vars

\* A result for a poll of an earlier run was handled while a poll is pending.
C9_Witness ==
    last.update.kind = "poll" /\ last.update.poll_id = 0 /\ ~last.found /\ polls # << >>

\* The update is a message that reaches handleDocument with a file name
\* ending neither in .zip nor in .rar.
OtherDocument(u) ==
    /\ u.kind = "message" /\ u.photo = 0 /\ ~u.video /\ u.document
    /\ \/ Len(u.file_name) < 4
       \/ SubSeq(u.file_name, Len(u.file_name) - 3, Len(u.file_name)) \notin {ZipExt, RarExt}

\* C10: a document that is no .zip or .rar gets the unsupported-type reply
\* and nothing else: no getFile, no poll, no pending entry.
C10_UnsupportedDocument ==
    [][ (Dispatched /\ OtherDocument(last'.update))
          => /\ Len(last'.calls) = 1
             /\ last'.calls[1].op = "sendMessage"
             /\ last'.calls[1].what = "unsupported_document"
             /\ last'.calls[1].chat = last'.update.chat
             /\ ~last'.threw
             /\ UNCHANGED <<polls, nextPoll, disk, buttons>> ]_vars

\* d.7z was handled.
C10_Witness ==
    last.update.document /\ last.update.file_name = Name7z /\ Len(last.calls) = 1

\* C11: an entry is added to the pending store only by a handler in which
\* getFile and then sendPoll succeeded; the entry carries the poll id the
\* server returned for that poll; when getFile or sendPoll fails the store
\* is left as it was.
C11_RegisteredAfterPoll ==
    [][ Dispatched =>
          LET c == last'.calls
              u == last'.update
          IN /\ Len(polls') > Len(polls)
                  => /\ \E i, j \in 1..Len(c) :
                          /\ i < j
                          /\ c[i].op = "getFile" /\ c[i].ok
                          /\ c[j].op = "sendPoll" /\ c[j].ok
                     /\ Len(polls') = Len(polls) + 1
                     /\ SubSeq(polls', 1, Len(polls)) = polls
                     /\ polls'[Len(polls')].pollId = nextPoll
                     /\ polls'[Len(polls')].fileName = u.file_name
                     /\ polls'[Len(polls')].chatId = u.chat
                     /\ nextPoll' = nextPoll + 1
             /\ (\E i \in 1..Len(c) : c[i].op \in {"getFile", "sendPoll"} /\ ~c[i].ok)
                  => polls' = polls ]_vars

\* With one archive pending, the sendPoll of a second archive failed after
\* its download: no second entry.
C11_Witness ==
    /\ Len(polls) = 1
    /\ last.update.document /\ last.threw
    /\ Len(last.calls) = 4
    /\ last.calls[2].op = "getFile" /\ last.calls[2].ok
    /\ last.calls[4].op = "sendPoll" /\ ~last.calls[4].ok

\* The update is the press of the Yes button of the send-media prompt of
\* directory d.
SendMediaFor(u, d) ==
    /\ u.kind = "callback_query"
    /\ \E n \in FileNames : u.data = SendMediaFiles \o Colon \o d \o Colon \o n

\* Every call of the latest handler succeeded.
AllCallsOk == \A i \in 1..Len(last.calls) : last.calls[i].ok

RECURSIVE ExpectedSends(_, _)
ExpectedSends(d, files) ==
    IF files = << >> THEN << >>
    ELSE LET t == Slice1(ExtName(Head(files)))
             here == IF t \in SUPPORTED_PHOTO_TYPES
                     THEN << [op |-> "sendPhoto", arg |-> PathJoin(d, Head(files))] >>
                     ELSE IF t \in SUPPORTED_VIDEO_TYPES
                     THEN << [op |-> "sendVideo", arg |-> PathJoin(d, Head(files))] >>
                     ELSE << >>
         IN here \o ExpectedSends(d, Tail(files))

ExploreFor(u, d) ==
    /\ u.kind = "callback_query"
    /\ \E n \in FileNames : u.data = ExploreSubdirs \o Colon \o d \o Colon \o n

\* d is a subdirectory directly inside p.
IsChild(d, p) ==
    /\ p \in DOMAIN Tree
    /\ \E k \in 1..Len(Tree[p].dirs) : d = PathJoin(p, Tree[p].dirs[k])

\* The latest update allows the walker to read directory d: d is the
\* extraction directory of the archive whose poll was answered, or a
\* subdirectory directly inside the directory whose exploration was confirmed.
MayVisit(d) ==
    \/ d \in {DirA, DirB} /\ last.update.kind = "poll"
    \/ \E p \in DOMAIN Tree : IsChild(d, p) /\ ExploreFor(last.update, p)

\* C13: one explore confirmation for directory d produces the summaries and
\* prompts of the subdirectories directly inside d and of no other
\* directory, and sends no file; a directory further down is read,
\* summarised and prompted for only by the handler of an explore
\* confirmation for its parent.
C13_OneLevelPerConfirmation ==
    /\ \A i \in 1..Len(last.calls) :
          LET c == last.calls[i]
          IN /\ c.what = "summary" => MayVisit(c.arg)
             /\ c.what \in {"ask_send_media", "ask_explore"}
                  => \E d \in DOMAIN Tree, n \in FileNames :
                        /\ MayVisit(d)
                        /\ c.arg = (IF c.what = "ask_explore" THEN ExploreSubdirs
                                    ELSE SendMediaFiles) \o Colon \o d \o Colon \o n
             /\ (\E p \in DOMAIN Tree : ExploreFor(last.update, p))
                  => c.op \notin {"sendPhoto", "sendVideo"}
    /\ \A p \in DOMAIN Tree :
          (ExploreFor(last.update, p) /\ AllCallsOk)
              => \A k \in 1..Len(Tree[p].dirs) :
                     \E i \in 1..Len(last.calls) :
                         /\ last.calls[i].what = "summary"
                         /\ last.calls[i].arg = PathJoin(p, Tree[p].dirs[k])

\* Exploring unzipped/a was confirmed: unzipped/a/s was summarised and
\* prompted for (it has a video and the subdirectory t), and that is all.
C13_Witness ==
    /\ ExploreFor(last.update, DirA)
    /\ Len(last.calls) = 4
    /\ last.calls[2].what = "summary" /\ last.calls[2].arg = DirAS
    /\ last.calls[3].what = "ask_send_media"
    /\ last.calls[4].what = "ask_explore"
    /\ AllCallsOk

\* C14: a file is sent (sendPhoto, sendVideo) only by the handler of a
\* send-media confirmation, and only from the directory that confirmation
\* names; the handlers that run recursiveSendFiles (poll answer, explore
\* confirmation) send no file.
C14_NoSendWithoutConfirmation ==
    \A i \in 1..Len(last.calls) :
        last.calls[i].op \in {"sendPhoto", "sendVideo"}
            => \E d \in DOMAIN Tree :
                   /\ SendMediaFor(last.update, d)
                   /\ \E k \in 1..Len(Tree[d].files) :
                          last.calls[i].arg = PathJoin(d, Tree[d].files[k])

\* The poll of a.zip was answered, and later p.png was sent on the
\* confirmation for unzipped/a.
C14_Witness ==
    /\ resolved # {} /\ DirA \in disk
    /\ SendMediaFor(last.update, DirA)
    /\ \E i \in 1..Len(last.calls) :
           last.calls[i].op = "sendPhoto" /\ last.calls[i].arg = PathJoin(DirA, FilePng)

\* C15: when the handler of a Yes answer ends the traversal of an archive
\* (the extraction directory holds no file to send and no subdirectory, so
\* no confirmation is awaited), the extraction directory is deleted and a
\* completion message is sent.
C15_CleanupAfterDelivery ==
    [][ \A r \in {DirA, DirB} :
          ( /\ Dispatched
            /\ last'.update.kind = "poll" /\ last'.update.vote = "Yes" /\ last'.found
            /\ \E i \in 1..Len(last'.calls) :
                   last'.calls[i].op = "extract" /\ last'.calls[i].arg = r
            /\ ~last'.threw
            /\ Tree[r].dirs = << >> /\ ExpectedSends(r, Tree[r].files) = << >> )
          => /\ r \notin disk'
             /\ \E i \in 1..Len(last'.calls) :
                    /\ last'.calls[i].op = "sendMessage"
                    /\ last'.calls[i].what \in {"process_completed", "cleanup_completed"} ]_vars

\* C17: a failed request of an outbound send operation (sendMessage,
\* sendPoll, sendPhoto, sendVideo) does not propagate: the handler that made
\* the call does not end with an exception.
C17_SendFailureCaught ==
    \A i \in 1..Len(last.calls) :
        (~last.calls[i].ok
           /\ last.calls[i].op \in {"sendMessage", "sendPoll", "sendPhoto", "sendVideo"})
            => ~last.threw

\* C17 (amended): a failed request of sendMessage is caught where it is
\* made and the handler goes on without an exception; a failed request of
\* sendPoll, sendPhoto or sendVideo propagates: it is the handler's last
\* call, the handler throws, and the guard of the dispatch loop takes over.
C17_OnlySendMessageCaught ==
    \A i \in 1..Len(last.calls) :
        ~last.calls[i].ok =>
            /\ last.calls[i].op = "sendMessage"
                 => (~last.threw /\ last.guard = "none")
            /\ last.calls[i].op \in {"sendPoll", "sendPhoto", "sendVideo"}
                 => (last.threw /\ i = Len(last.calls) /\ last.guard # "none")

\* The sendPhoto of a confirmed directory failed and ended the handler.
C17_Witness ==
    /\ SendMediaFor(last.update, DirA)
    /\ Len(last.calls) = 2
    /\ last.calls[2].op = "sendPhoto" /\ ~last.calls[2].ok
    /\ last.threw

C18_PayloadRoundTrip ==
    (fnIn.fn = "callback" /\ fnOut.done) =>
        /\ fnOut.action = fnIn.c
        /\ fnIn.c # Ignore => (fnOut.dir = fnIn.a /\ fnOut.fileName = fnIn.b)

\* C19: a message with a photo (n size variants) or a video, handled
\* without a failing request, raises no error and makes one getFile request
\* followed by one download-path message per size variant (one pair for a
\* video).
C19_MediaDownloaded ==
    (last.update.kind = "message" /\ (last.update.photo > 0 \/ last.update.video)
       /\ AllCallsOk)
        => LET n == IF last.update.photo > 0 THEN last.update.photo ELSE 1
           IN /\ ~last.threw
              /\ Len(last.calls) = 2 * n
              /\ \A k \in 1..n :
                     /\ last.calls[2 * k - 1].op = "getFile"
                     /\ last.calls[2 * k].what = "download_path"

\* C20: at most one handleUpdate call is in progress at any time; a call
\* starts only when none is in progress, for the first update of the batch
\* not yet visited, whose update_id is above those of all updates handled
\* before; the pending store changes only when the one call in progress
\* ends.
C20_Sequential ==
    /\ [](Cardinality(running) <= 1)
    /\ [][ (handled' # handled)
             => /\ running = {}
                /\ updates # << >>
                /\ running' = {Head(updates)}
                /\ updates' = Tail(updates)
                /\ \A i \in UpdateIds : handled[i] > 0 => i < Head(updates).update_id ]_vars
    /\ [][ (polls' # polls) => (Cardinality(running) = 1 /\ running' = {}) ]_vars

\* The answer to a poll is being handled while an archive is pending and
\* the next update of the batch waits.
C20_Witness ==
    /\ pc = "handling"
    /\ updates # << >>
    /\ polls # << >>
    /\ \E u \in running : u.kind = "poll"

\* C21: a getUpdates request carries an offset above the update_id of an
\* update only after handleUpdate was called on that update (the updates
\* the first-run branch skipped aside, which are never dispatched).
C21_CursorAfterStart ==
    \A i \in 1..(nextId - 1) :
        (reqOffset > i /\ i \notin skipped) => handled[i] >= 1

\* Updates 1 and 2 were dispatched, the handler of one of them threw, and
\* the next request asks from 3.
C21_Witness ==
    /\ skipped = {} /\ handled[1] = 1 /\ handled[2] = 1
    /\ last.threw
    /\ pc = "await" /\ reqOffset = 3

\* The number of files of directory d with an extension of
\* SUPPORTED_PHOTO_TYPES or SUPPORTED_VIDEO_TYPES.
MultimediaCount(d) ==
    Cardinality({ k \in 1..Len(Tree[d].files) :
                    Slice1(ExtName(Tree[d].files[k]))
                        \in SUPPORTED_PHOTO_TYPES \cup SUPPORTED_VIDEO_TYPES })

\* C22: the summary recursiveSendFiles sends for a directory gives the
\* number of its regular files, of its subdirectories and of its multimedia
\* files, and lists at most 5 of its files and at most 5 of its
\* subdirectories as examples.
C22_SummaryCounts ==
    (fnIn.fn = "summary" /\ fnOut.done) =>
        LET d == fnIn.a
            c == fnOut.calls[1]
        IN /\ c.op = "sendMessage" /\ c.what = "summary" /\ c.arg = d
           /\ c.info[1] = Len(Tree[d].files)
           /\ c.info[2] = Len(Tree[d].dirs)
           /\ c.info[3] = MultimediaCount(d)
           /\ Len(c.info[4]) <= 5 /\ Len(c.info[5]) <= 5
           /\ \A k \in 1..Len(c.info[4]) : c.info[4][k] = Tree[d].files[k]
           /\ \A k \in 1..Len(c.info[5]) : c.info[5][k] = Tree[d].dirs[k]

\* unzipped/c (6 files, 4 of them multimedia, 6 subdirectories) was
\* summarised: 5 example files, 5 example subdirectories.
C22_Witness ==
    /\ fnIn.fn = "summary" /\ fnIn.a = DirC /\ fnOut.done
    /\ fnOut.calls[1].info[1] = 6 /\ fnOut.calls[1].info[2] = 6
    /\ fnOut.calls[1].info[3] = 4
    /\ Len(fnOut.calls[1].info[4]) = 5 /\ Len(fnOut.calls[1].info[5]) = 5

\* Prompt what for directory d is among the calls.
Asked(calls, what, action, d) ==
    \E i \in 1..Len(calls) :
        /\ calls[i].what = what
        /\ calls[i].arg = action \o Colon \o d \o Colon \o NameZip

\* C23: for a directory recursiveSendFiles reports, the send-media prompt is
\* shown exactly when the directory has a multimedia file and the explore
\* prompt exactly when it has a subdirectory; confirming one prompt leaves
\* the other prompt's button in place, raises no error, and the handler of
\* the other confirmation does the same whether or not the first prompt was
\* answered.
C23_IndependentPrompts ==
    (fnIn.fn = "prompts" /\ fnOut.done) =>
        /\ Asked(fnOut.calls, "ask_send_media", SendMediaFiles, fnIn.a)
             <=> MultimediaCount(fnIn.a) > 0
        /\ Asked(fnOut.calls, "ask_explore", ExploreSubdirs, fnIn.a)
             <=> Len(Tree[fnIn.a].dirs) > 0
        /\ Len(fnOut.calls) = 1 + (IF MultimediaCount(fnIn.a) > 0 THEN 1 ELSE 0)
                                + (IF Len(Tree[fnIn.a].dirs) > 0 THEN 1 ELSE 0)
        /\ fnOut.kept
        /\ ~fnOut.threw
        /\ fnOut.after = fnOut.alone

\* unzipped/c/1 has a subdirectory and no file: only the explore prompt was
\* shown, and it was answered.
C23_Witness ==
    /\ fnIn.fn = "prompts" /\ fnIn.a = DirC1 /\ fnOut.done
    /\ Len(fnOut.calls) = 2 /\ fnOut.calls[2].what = "ask_explore"
    /\ fnOut.after # << >>

\* C24: for a registered poll the decision is defined for every result: if
\* the first voted option is Yes the archive is extracted; otherwise nothing
\* is extracted, no error is raised, and exactly one process-completed
\* message goes to the registered chat.
C24_DecisionDefined ==
    (last.update.kind = "poll" /\ last.found) =>
        IF last.update.vote = "Yes"
        THEN Len(last.calls) >= 1 /\ last.calls[1].op = "extract"
        ELSE /\ ~last.threw
             /\ Len(last.calls) = 1
             /\ last.calls[1].op = "sendMessage"
             /\ last.calls[1].what = "process_completed"
             /\ last.calls[1].chat \in Chats

\* The replies that tell the handlers of a message apart.
MessageReplies ==
    {"downloading", "unsupported_document", "welcome", "unknown_command", "unknown_message"}

\* C25: handleUpdate passes an update to one handler, by precedence: a
\* message by photo, then video, then document, then text (/start: the
\* welcome message; other text: the unknown-command reply), else the
\* unknown-message reply; a poll result to handlePollResponse; a button
\* press to handleCallbackQuery; any other update makes no call and changes
\* nothing.
C25_Routing ==
    (fnIn.fn = "route" /\ fnOut.done) =>
        LET u == fnIn.u
            c == fnOut.calls
            whats == {c[i].what : i \in 1..Len(c)}
        IN IF u.kind = "message"
           THEN IF u.photo > 0
                THEN /\ Len(c) = 2 * u.photo
                     /\ \A i \in 1..Len(c) : c[i].op = "getFile" \/ c[i].what = "download_path"
                ELSE IF u.video
                THEN whats \cap MessageReplies = {}
                ELSE IF u.document
                THEN /\ Len(c) >= 1
                     /\ c[1].what = (IF u.file_name = NameZip THEN "downloading"
                                     ELSE "unsupported_document")
                     /\ whats \cap {"welcome", "unknown_command", "unknown_message"} = {}
                ELSE IF u.text = TextStart THEN Len(c) = 1 /\ c[1].what = "welcome"
                ELSE IF u.text # NoChars THEN Len(c) = 1 /\ c[1].what = "unknown_command"
                ELSE Len(c) = 1 /\ c[1].what = "unknown_message"
           ELSE IF u.kind = "poll"
           THEN /\ fnOut.found <=> u.poll_id = 1
                /\ fnOut.found => (Len(c) = 1 /\ c[1].what = "process_completed")
                /\ ~fnOut.found => (c = << >> /\ ~fnOut.changed)
           ELSE IF u.kind = "callback_query"
           THEN Len(c) >= 1 /\ c[1].op = "deleteMessage" /\ ~fnOut.found
           ELSE c = << >> /\ ~fnOut.threw /\ ~fnOut.changed /\ ~fnOut.found

\* A message with a photo, a video, a document and a text went to the
\* photo handler.
C25_Witness ==
    /\ fnIn.fn = "route" /\ fnOut.done
    /\ fnIn.u.photo > 0 /\ fnIn.u.video /\ fnIn.u.document /\ fnIn.u.text # NoChars
    /\ fnOut.calls[1].op = "getFile"

C27_ConsumedFirst ==
    [][ Dispatched =>
          LET u == last'.update
          IN /\ (u.kind = "poll" /\ \E k \in 1..Len(polls) : polls[k].pollId = u.poll_id)
                  => /\ last'.found
                     /\ Len(polls') = Len(polls) - 1
                     /\ \A k \in 1..Len(polls') : polls'[k].pollId # u.poll_id
             /\ \A i \in resolved' : \A k \in 1..Len(polls') : polls'[k].pollId # i ]_vars

\* A result for a pending poll was handled, the handler threw (no option
\* had a vote, or the extraction failed), and the entry is gone.
C27_Witness ==
    /\ last.update.kind = "poll" /\ last.found /\ last.threw
    /\ \/ last.update.vote = ""
       \/ \E i \in 1..Len(last.calls) : last.calls[i].op = "extract" /\ ~last.calls[i].ok
    /\ last.update.poll_id \in resolved
    /\ \A k \in 1..Len(polls) : polls[k].pollId # last.update.poll_id

\* C28: the pending store is changed by two handlers only: handleArchive
\* appends one entry, handlePollResponse removes the one entry of the poll
\* id of the result.  Every other step leaves it as it is: a callback, a
\* text or video message, a document that is no archive, an update of an
\* unknown kind, a request to getUpdates that fails or succeeds.  What a
\* callback does is the same with an empty store (it is worked out from the
\* payload), and an 'ignore' callback only deletes the prompt message.
C28_StoreFrame ==
    [][ LET u == last'.update
        IN /\ polls' # polls
                => /\ Dispatched
                   /\ \/ /\ u.kind = "message" /\ u.photo = 0 /\ ~u.video
                         /\ u.document /\ IsArchiveName(u.file_name)
                         /\ Len(polls') = Len(polls) + 1
                         /\ SubSeq(polls', 1, Len(polls)) = polls
                      \/ /\ u.kind = "poll"
                         /\ \E k \in 1..Len(polls) :
                                polls[k].pollId = u.poll_id /\ polls' = Splice(polls, k)
           /\ (Dispatched /\ u.kind = "callback_query")
                => /\ polls' = polls
                   /\ \E net \in 0..MaxCalls :
                        LET r == handleUpdate(Start(<< >>, nextPoll, disk, buttons), net, u)
                        IN /\ r.calls = last'.calls
                           /\ r.threw = last'.threw
                           /\ r.disk = disk'
                           /\ r.buttons = buttons'
                   /\ u.data = Ignore
                        => /\ Len(last'.calls) = 1
                           /\ last'.calls[1].op = "deleteMessage"
                           /\ ~last'.threw
                           /\ disk' = disk ]_vars

\* A button was pressed while an archive was waiting for its poll result:
\* the callback was handled and the entry is still in the store.
C28_Witness ==
    /\ last.update.kind = "callback_query"
    /\ Len(last.calls) >= 1 /\ last.calls[1].op = "deleteMessage"
    /\ polls # << >>

====
